---------------------------- MODULE Spec2Model ----------------------------
(***************************************************************************)
(* A model of the TIMBER jet-selection modules:                            *)
(*   FlatMass.cc          MassFlattener (stateful mass flattening)          *)
(*   JetMatching.cc       SelectJets, GetPFCandIndicesForJets,              *)
(*                        GetJetMatchIndexForPFCands, DeltaPhi,             *)
(*                        GenMatchSelectJets, IntersectIndices              *)
(*   top_gen_matching.cc  the four ancestry predicates, classifyProbeJet,   *)
(*                        classifyTopJets                                   *)
(*                                                                         *)
(* MassFlattener is the only object with state that outlives a call; its   *)
(* loop is modelled one iteration per step.  Every other routine is a pure *)
(* function: its specification draws the arguments in Init and one action  *)
(* applies the function and stores what it returned.                       *)
(*                                                                         *)
(* C++ vectors are 0-based, TLA+ sequences 1-based: element k of a vector  *)
(* is element k+1 of the sequence, and index VALUES stored in sequences    *)
(* (jet indices, mother indices) keep the 0-based values of the code.      *)
(***************************************************************************)
EXTENDS Integers, Sequences, FiniteSets, TLC

VARIABLES
    mass_max,      \* MassFlattener::mass_max
    histogram,     \* MassFlattener::histogram: bin number -> content
    call,          \* arguments of the SelectJetsFlatMass call in progress
    jet,           \* the array elements read by the latest loop iteration
    i,             \* loop variable i of SelectJetsFlatMass
    selectedJets,  \* local selectedJets of SelectJetsFlatMass (its return value)
    usedMax,       \* history: the max_count values passed so far
    pc,            \* position: "idle" | "loop" (MassFlattener); "call" | "cands" | "done" (pure functions)
    args,          \* arguments of the pure function under study
    ret            \* what the pure function returned

vars == <<mass_max, histogram, call, jet, i, selectedJets, usedMax, pc, args, ret>>
flatVars == <<mass_max, histogram, call, jet, i, selectedJets, usedMax>>

----------------------------------------------------------------------------
(* Generic helpers *)

Abs(x) == IF x < 0 THEN -x ELSE x

Range(s) == {s[k] : k \in 1..Len(s)}

\* all sequences over S of length 0..n
SeqsUpTo(S, n) == UNION {[1..m -> S] : m \in 0..n}

NoFlat ==
    /\ mass_max = 0
    /\ histogram = <<>>
    /\ call = <<>>
    /\ jet = <<>>
    /\ i = 0
    /\ selectedJets = <<>>
    /\ usedMax = {}

----------------------------------------------------------------------------
(* FlatMass.cc: class MassFlattener *)

\* bounds of the MassFlattener model
MaxJets == 2
MaxCount == 1
MaxEntries == 3

\* the "/ 5" of the constructor: the assumed bin width
BinWidth == 5

\* constructor arguments tried: one divisible by the bin width, one not
MassMaxValues == {10, 12}

\* the cuts tried: ptCut, etaCut, massCut
CutsFlat == [ptCut |-> 30, etaCut |-> 2, massCut |-> -5]

\* elements (FatJet_pt[i], FatJet_eta[i], FatJet_msoftdrop[i]) offered
JetValues ==
    { [pt |-> 30, eta |-> 0,  m |-> 7],     \* pt on the threshold
      [pt |-> 40, eta |-> -3, m |-> 7],     \* |eta| too large
      [pt |-> 40, eta |-> 0,  m |-> -5],    \* mass on the threshold
      [pt |-> 40, eta |-> -1, m |-> -2],    \* below the axis: underflow bin
      [pt |-> 40, eta |-> 1,  m |-> 3],
      [pt |-> 40, eta |-> 0,  m |-> 7],
      [pt |-> 40, eta |-> 0,  m |-> 10],    \* the upper edge when mass_max = 10
      [pt |-> 40, eta |-> 0,  m |-> 12] }   \* the upper edge when mass_max = 12
MaxCountValues == -1..MaxCount

\* static_cast<int>(mass_max / 5): the number of bins of the histogram
GetNbinsX(mm) == mm \div BinWidth

\* bins 0 (underflow), 1..nbins, nbins+1 (overflow)
Bins(mm) == 0..(GetNbinsX(mm) + 1)

\* TH1::FindBin on the axis (nbins, 0, mass_max)
FindBin(mm, mass) ==
    IF mass < 0 THEN 0
    ELSE IF mass >= mm THEN GetNbinsX(mm) + 1
    ELSE 1 + ((GetNbinsX(mm) * mass) \div mm)

\* the cuts of line 20
PassesCutsFlat(c, j) ==
    /\ j.pt > c.ptCut
    /\ Abs(j.eta) < c.etaCut
    /\ j.m > c.massCut

\* a mutant: the cap compares with > instead of >=
SkipJetOffByOne(mm, hist, bin, max_count) ==
    bin <= GetNbinsX(mm) /\ hist[bin] > max_count

\* a mutant: the underflow bin is exempt from the cap, like the overflow bin
SkipJetInRangeOnly(mm, hist, bin, max_count) ==
    bin >= 1 /\ bin <= GetNbinsX(mm) /\ hist[bin] >= max_count

\* the condition of line 24: the jet is skipped
SkipJet(mm, hist, bin, max_count) ==
    bin <= GetNbinsX(mm) /\ hist[bin] >= max_count

\* TH1::Fill(mass) with weight 1
Fill(mm, hist, mass) ==
    [hist EXCEPT ![FindBin(mm, mass)] = @ + 1]

RECURSIVE SumUpTo(_, _)
SumUpTo(hist, b) == IF b < 0 THEN 0 ELSE hist[b] + SumUpTo(hist, b - 1)
Entries(mm, hist) == SumUpTo(hist, GetNbinsX(mm) + 1)

\* the scalar arguments of a call and the size of its three arrays; the
\* elements of the arrays are drawn when the loop reads them
FlatCalls ==
    { [ptCut |-> CutsFlat.ptCut, etaCut |-> CutsFlat.etaCut,
       massCut |-> CutsFlat.massCut, max_count |-> mx, size |-> n] :
        mx \in MaxCountValues, n \in 0..MaxJets }

NoCall == [ptCut |-> 0, etaCut |-> 0, massCut |-> 0, max_count |-> 0, size |-> 0]
NoJet == [pt |-> 0, eta |-> 0, m |-> 0]

\* history of max_count: {} before the first call, {v} while every call
\* passed v, all of MaxCountValues once two calls differed
NoteMax(used, mx) ==
    IF used = {} \/ used = {mx} THEN {mx} ELSE MaxCountValues

\* MassFlattener(mass_max): an empty histogram
InitFlat ==
    /\ mass_max \in MassMaxValues
    /\ histogram = [b \in Bins(mass_max) |-> 0]
    /\ call = NoCall
    /\ jet = NoJet
    /\ i = 0
    /\ selectedJets = <<>>
    /\ usedMax = {}
    /\ pc = "idle"
    /\ args = <<>>
    /\ ret = <<>>

\* entry of SelectJetsFlatMass
FlatEnter ==
    /\ pc = "idle"
    /\ Entries(mass_max, histogram) < MaxEntries
    /\ \E c \in FlatCalls :
        /\ call' = c
        /\ usedMax' = NoteMax(usedMax, c.max_count)
    /\ i' = 0
    /\ selectedJets' = <<>>
    /\ pc' = "loop"
    /\ UNCHANGED <<mass_max, histogram, jet, args, ret>>

\* one iteration of the loop of SelectJetsFlatMass, on element i
FlatStep ==
    /\ pc = "loop"
    /\ i < call.size
    /\ \E j \in JetValues :
        /\ jet' = j
        /\ LET bin == FindBin(mass_max, j.m)
           IN  IF PassesCutsFlat(call, j)
                    /\ ~SkipJet(mass_max, histogram, bin, call.max_count)
               THEN /\ selectedJets' = Append(selectedJets, i)
                    /\ histogram' = Fill(mass_max, histogram, j.m)
               ELSE UNCHANGED <<selectedJets, histogram>>
    /\ i' = i + 1
    /\ UNCHANGED <<mass_max, call, usedMax, pc, args, ret>>

\* return selectedJets: the locals end with the call
FlatReturn ==
    /\ pc = "loop"
    /\ i = call.size
    /\ pc' = "idle"
    /\ call' = NoCall
    /\ jet' = NoJet
    /\ i' = 0
    /\ selectedJets' = <<>>
    /\ UNCHANGED <<mass_max, histogram, usedMax, args, ret>>

NextFlat == FlatEnter \/ FlatStep \/ FlatReturn

SpecFlat == InitFlat /\ [][NextFlat]_vars

----------------------------------------------------------------------------
(* Properties of MassFlattener *)

\* a step of the loop of SelectJetsFlatMass: it examines element i, which
\* the step leaves in jet'
LoopStep == pc = "loop" /\ i' = i + 1

\* the latest loop iteration examined a jet that passed the cuts
ExaminedPassing == pc = "loop" /\ i > 0 /\ PassesCutsFlat(call, jet)

\* index i-1 (the element just examined) is in the output
LastSelected == Len(selectedJets) > 0 /\ selectedJets[Len(selectedJets)] = i - 1

\* C1: flattening cap invariant. While every call so far has passed the
\* same max_count >= 0, every bin inside the range [0, mass_max), that is
\* every bin 1..nbins, holds at most max_count entries.
C1_FlatteningCap ==
    \A mx \in MaxCountValues :
        (usedMax = {mx} /\ mx >= 0) =>
            \A b \in 1..GetNbinsX(mass_max) : histogram[b] <= mx

\* C1 witness: with max_count = 1 on every call, a jet that passed the cuts
\* was turned away from an in-range bin that is full.
C1_Witness ==
    /\ ExaminedPassing
    /\ usedMax = {1}
    /\ jet.m >= 0 /\ jet.m < mass_max
    /\ histogram[FindBin(mass_max, jet.m)] = 1
    /\ ~LastSelected

\* C2 as stated: a jet that passes the cuts is rejected iff its mass lies
\* in [0, mass_max) and its bin already holds >= max_count entries; in every
\* other case it is accepted: its index is appended and exactly its bin
\* grows by one. A jet that fails the cuts or is rejected changes nothing.
C2_RejectIffInRangeAndFull ==
    [][LoopStep =>
        LET bin == FindBin(mass_max, jet'.m)
            rejected == /\ jet'.m >= 0 /\ jet'.m < mass_max
                        /\ histogram[bin] >= call.max_count
        IN  IF PassesCutsFlat(call, jet') /\ ~rejected
            THEN /\ selectedJets' = Append(selectedJets, i)
                 /\ histogram' = [histogram EXCEPT ![bin] = @ + 1]
            ELSE /\ selectedJets' = selectedJets
                 /\ histogram' = histogram]_vars

\* C2 amended: a jet that passes the cuts is rejected iff its mass lies
\* below mass_max (a bin 1..nbins, or the underflow bin 0 of a negative
\* mass) and its bin already holds >= max_count entries; in every other
\* case (mass >= mass_max) it is accepted: its index is appended and exactly
\* its bin grows by one. A jet that fails the cuts or is rejected changes
\* nothing.
C2_RejectIffBelowMaxAndFull ==
    [][LoopStep =>
        LET bin == FindBin(mass_max, jet'.m)
            rejected == /\ jet'.m < mass_max
                        /\ histogram[bin] >= call.max_count
        IN  IF PassesCutsFlat(call, jet') /\ ~rejected
            THEN /\ selectedJets' = Append(selectedJets, i)
                 /\ histogram' = [histogram EXCEPT ![bin] = @ + 1]
            ELSE /\ selectedJets' = selectedJets
                 /\ histogram' = histogram]_vars

\* C2 witness: a jet of negative mass passed the cuts and was turned away
\* because the underflow bin was full, while the overflow bin holds more
\* entries than max_count.
C2_Witness ==
    /\ ExaminedPassing
    /\ jet.m < 0
    /\ call.max_count >= 1
    /\ histogram[0] >= call.max_count
    /\ ~LastSelected
    /\ histogram[GetNbinsX(mass_max) + 1] > call.max_count

----------------------------------------------------------------------------
(* Pure functions: the arguments are drawn in Init, one action applies the  *)
(* function.                                                                *)

InitFn(S) ==
    /\ NoFlat
    /\ pc = "call"
    /\ args \in S
    /\ ret = <<>>

\* subsequence of s at the positions (1-based) in set P, in ascending order
RECURSIVE SubSeqAt(_, _, _)
SubSeqAt(s, P, k) ==
    IF k > Len(s) THEN <<>>
    ELSE IF k \in P THEN <<s[k]>> \o SubSeqAt(s, P, k + 1)
    ELSE SubSeqAt(s, P, k + 1)

\* strictly ascending sequence of integers
Ascending(s) == \A a, b \in 1..Len(s) : a < b => s[a] < s[b]

----------------------------------------------------------------------------
(* JetMatching.cc: SelectJets *)

MaxSel == 2

PtValues == {29, 30, 31}
EtaValues == {-2, -1, 2}
MassValues == {50, 51}
SelectCuts ==
    [ptCut : {29, 30}, etaCut : {2, 3}, massCut : {49, 50}]

SelectArgs ==
    { [pt |-> [k \in 1..Len(js) |-> js[k][1]],
       eta |-> [k \in 1..Len(js) |-> js[k][2]],
       mass |-> [k \in 1..Len(js) |-> js[k][3]],
       ptCut |-> c.ptCut, etaCut |-> c.etaCut, massCut |-> c.massCut] :
        js \in SeqsUpTo(PtValues \X EtaValues \X MassValues, MaxSel),
        c \in SelectCuts }

\* a mutant: the pt comparison is not strict
PassesCutsPtInclusive(pt, eta, mass, ptCut, etaCut, massCut, k) ==
    pt[k] >= ptCut /\ Abs(eta[k]) < etaCut /\ mass[k] > massCut

\* the condition of line 71, on element k (1-based)
PassesCuts(pt, eta, mass, ptCut, etaCut, massCut, k) ==
    pt[k] > ptCut /\ Abs(eta[k]) < etaCut /\ mass[k] > massCut

\* the loop of lines 70-73, from element k (0-based) on
RECURSIVE SelectJetsFrom(_, _, _, _, _, _, _, _)
SelectJetsFrom(pt, eta, mass, ptCut, etaCut, massCut, k, indices) ==
    IF k >= Len(pt) THEN indices
    ELSE SelectJetsFrom(pt, eta, mass, ptCut, etaCut, massCut, k + 1,
            IF PassesCuts(pt, eta, mass, ptCut, etaCut, massCut, k + 1)
            THEN Append(indices, k) ELSE indices)

SelectJets(pt, eta, mass, ptCut, etaCut, massCut) ==
    SelectJetsFrom(pt, eta, mass, ptCut, etaCut, massCut, 0, <<>>)

CallSelectJets ==
    /\ pc = "call"
    /\ ret' = SelectJets(args.pt, args.eta, args.mass,
                         args.ptCut, args.etaCut, args.massCut)
    /\ pc' = "done"
    /\ UNCHANGED <<args, flatVars>>

SpecSelect == InitFn(SelectArgs) /\ [][CallSelectJets]_vars

\* C9: SelectJets returns, ascending and without duplicates, exactly the
\* indices whose pt, |eta| and mass pass the three strict comparisons (a
\* jet on a threshold is rejected); raising ptCut or massCut, or lowering
\* etaCut, never adds an index.
C9_SelectJetsExact ==
    pc = "done" =>
        /\ Range(ret) =
             {k \in 0..(Len(args.pt) - 1) :
                /\ args.pt[k + 1] > args.ptCut
                /\ Abs(args.eta[k + 1]) < args.etaCut
                /\ args.mass[k + 1] > args.massCut}
        /\ Ascending(ret)
        /\ \A k \in 0..(Len(args.pt) - 1) :
             (\/ args.pt[k + 1] = args.ptCut
              \/ Abs(args.eta[k + 1]) = args.etaCut
              \/ args.mass[k + 1] = args.massCut) => k \notin Range(ret)
        /\ \A c \in SelectCuts :
             (c.ptCut >= args.ptCut /\ c.etaCut <= args.etaCut
                /\ c.massCut >= args.massCut)
             => Range(SelectJets(args.pt, args.eta, args.mass,
                                 c.ptCut, c.etaCut, c.massCut)) \subseteq Range(ret)

\* C9 witness: of two jets the first sits exactly on the pt threshold and is
\* left out, the second passes and is returned.
C9_Witness ==
    /\ pc = "done"
    /\ Len(args.pt) = 2
    /\ args.pt[1] = args.ptCut
    /\ Abs(args.eta[1]) < args.etaCut /\ args.mass[1] > args.massCut
    /\ ret = <<1>>

----------------------------------------------------------------------------
(* JetMatching.cc: IntersectIndices *)

MaxIdx == 3
IdxValues == {0, 1, 2}

IntersectArgs == [a : SeqsUpTo(IdxValues, MaxIdx), b : SeqsUpTo(IdxValues, MaxIdx)]

\* a mutant: a value already in out is not pushed again
RECURSIVE IntersectDedupFrom(_, _, _, _)
IntersectDedupFrom(a, b_set, k, out) ==
    IF k > Len(a) THEN out
    ELSE IntersectDedupFrom(a, b_set, k + 1,
            IF a[k] \in b_set /\ a[k] \notin Range(out)
            THEN Append(out, a[k]) ELSE out)

\* the loop of lines 175-176 over a, from element k (1-based) on; b_set is
\* the std::unordered_set built from b
RECURSIVE IntersectFrom(_, _, _, _)
IntersectFrom(a, b_set, k, out) ==
    IF k > Len(a) THEN out
    ELSE IntersectFrom(a, b_set, k + 1,
            IF a[k] \in b_set THEN Append(out, a[k]) ELSE out)

IntersectIndices(a, b) == IntersectFrom(a, Range(b), 1, <<>>)

CallIntersectIndices ==
    /\ pc = "call"
    /\ ret' = IntersectIndices(args.a, args.b)
    /\ pc' = "done"
    /\ UNCHANGED <<args, flatVars>>

SpecIntersect == InitFn(IntersectArgs) /\ [][CallIntersectIndices]_vars

\* unique(a): a with repeated values removed, first occurrences kept
Unique(a) ==
    SubSeqAt(a, {k \in 1..Len(a) : \A m \in 1..(k - 1) : a[m] # a[k]}, 1)

\* C6 as stated: IntersectIndices(a, a) = unique(a), and
\* IntersectIndices(a, []) = [].
C6_IntersectSelfIsUnique ==
    pc = "done" =>
        /\ (args.b = args.a => ret = Unique(args.a))
        /\ (args.b = <<>> => ret = <<>>)

\* C6 amended: IntersectIndices(a, a) = a itself, every repeated value
\* kept, so it equals unique(a) exactly when a has no repeated value; and
\* IntersectIndices(a, []) = [].
C6_IntersectSelfIsSelf ==
    pc = "done" =>
        /\ (args.b = args.a =>
              /\ ret = args.a
              /\ (ret = Unique(args.a) <=> Cardinality(Range(args.a)) = Len(args.a)))
        /\ (args.b = <<>> => ret = <<>>)

\* C6 witness: a list with a repeated value was intersected with itself and
\* came back with the repetition.
C6_Witness ==
    /\ pc = "done"
    /\ args.b = args.a
    /\ Len(args.a) = 3
    /\ args.a[1] = args.a[3]
    /\ Len(ret) = 3

----------------------------------------------------------------------------
(* JetMatching.cc: DeltaPhi.  Angles and pseudorapidities of JetMatching.cc  *)
(* are integers in units of 1/1000 (milliradians for angles).               *)

\* M_PI, in the unit above
M_PI == 3142

PhiValues == {-7000, -3142, -3000, -100, 0, 100, 1571, 3000, 3142, 3143, 6284, 7000, 10000}

DeltaPhiArgs == [phi1 : PhiValues, phi2 : PhiValues]

\* a mutant: no wrap-around at all
DeltaPhiNoWrap(phi1, phi2) == Abs(phi1 - phi2)

\* lines 108-112
DeltaPhi(phi1, phi2) ==
    LET dPhi == Abs(phi1 - phi2)
    IN  IF dPhi > M_PI THEN 2 * M_PI - dPhi ELSE dPhi

CallDeltaPhi ==
    /\ pc = "call"
    /\ ret' = DeltaPhi(args.phi1, args.phi2)
    /\ pc' = "done"
    /\ UNCHANGED <<args, flatVars>>

SpecDeltaPhi == InitFn(DeltaPhiArgs) /\ [][CallDeltaPhi]_vars

\* C8 as stated: for any inputs DeltaPhi returns a value in [0, pi].
C8_DeltaPhiInRange ==
    pc = "done" => (0 <= ret /\ ret <= M_PI)

\* C8 amended: for inputs whose difference is at most 2*pi in absolute
\* value (in particular two angles in [-pi, pi]) DeltaPhi returns a value in
\* [0, pi]: |phi1 - phi2| if that is at most pi, else 2*pi - |phi1 - phi2|.
C8_DeltaPhiInRangeWithin2Pi ==
    (pc = "done" /\ Abs(args.phi1 - args.phi2) <= 2 * M_PI) =>
        /\ 0 <= ret /\ ret <= M_PI
        /\ ret \in {Abs(args.phi1 - args.phi2), 2 * M_PI - Abs(args.phi1 - args.phi2)}

\* C8 witness: the wrap-around happened (3.0 against -3.0 gives 0.284).
C8_Witness ==
    /\ pc = "done"
    /\ args.phi1 = 3000 /\ args.phi2 = -3000
    /\ ret = 284

----------------------------------------------------------------------------
(* JetMatching.cc: GenMatchSelectJets *)

MaxGen == 3
MaxMatchJets == 2

\* bit 13 of statusFlags: isLastCopy
LastCopyBit == 13

\* generator particles offered; 8192 = 1 << 13, 4096 = 1 << 12
GenValues ==
    { [pdgId |-> 5,  statusFlags |-> 8192,  eta |-> 0,   phi |-> 0],
      [pdgId |-> -5, statusFlags |-> 8193,  eta |-> 400, phi |-> 0],
      [pdgId |-> 5,  statusFlags |-> 8192,  eta |-> 0,   phi |-> 3100],
      [pdgId |-> -5, statusFlags |-> 12288, eta |-> 0,   phi |-> -3100],
      [pdgId |-> 5,  statusFlags |-> 4097,  eta |-> 0,   phi |-> 200],
      [pdgId |-> 6,  statusFlags |-> 8192,  eta |-> 0,   phi |-> 200] }
MatchJetValues == {<<0, 200>>, <<0, -3000>>, <<800, 0>>}
MatchIDValues == {5}
DRValues == {400, 800}

GenMatchArgs ==
    { [jet_eta |-> [k \in 1..Len(js) |-> js[k][1]],
       jet_phi |-> [k \in 1..Len(js) |-> js[k][2]],
       gen_pdgId |-> [k \in 1..Len(gs) |-> gs[k].pdgId],
       gen_statusFlags |-> [k \in 1..Len(gs) |-> gs[k].statusFlags],
       gen_eta |-> [k \in 1..Len(gs) |-> gs[k].eta],
       gen_phi |-> [k \in 1..Len(gs) |-> gs[k].phi],
       matchID |-> id, dR |-> r] :
        js \in SeqsUpTo(MatchJetValues, MaxMatchJets),
        gs \in SeqsUpTo(GenValues, MaxGen),
        id \in MatchIDValues, r \in DRValues }

\* flags & (1 << bit), for flags >= 0
BitSet(flags, bit) == (flags \div (2 ^ bit)) % 2 = 1

\* dEta * dEta + dPhi * dPhi of lines 136-139 and 157-160
Dist2(eta1, phi1, eta2, phi2) ==
    LET dEta == eta1 - eta2
        dPhi == DeltaPhi(phi1, phi2)
    IN  dEta * dEta + dPhi * dPhi

\* a mutant: the isolation test is not strict
IsIsolatedInclusive(eta, phi, coords, dR2) ==
    \A c \in 1..Len(coords) : ~(Dist2(eta, phi, coords[c][1], coords[c][2]) <= dR2)

\* lines 133-143: no stored coordinate is closer than dR
IsIsolated(eta, phi, coords, dR2) ==
    \A c \in 1..Len(coords) : ~(Dist2(eta, phi, coords[c][1], coords[c][2]) < dR2)

\* the first loop (lines 127-148), from particle k (0-based) on
RECURSIVE SelectIsolatedFrom(_, _, _, _)
SelectIsolatedFrom(a, dR2, k, matchedGenCoords) ==
    IF k >= Len(a.gen_pdgId) THEN matchedGenCoords
    ELSE IF ~BitSet(a.gen_statusFlags[k + 1], LastCopyBit)
         THEN SelectIsolatedFrom(a, dR2, k + 1, matchedGenCoords)
    ELSE IF Abs(a.gen_pdgId[k + 1]) # a.matchID
         THEN SelectIsolatedFrom(a, dR2, k + 1, matchedGenCoords)
    ELSE SelectIsolatedFrom(a, dR2, k + 1,
            IF IsIsolated(a.gen_eta[k + 1], a.gen_phi[k + 1], matchedGenCoords, dR2)
            THEN Append(matchedGenCoords, <<a.gen_eta[k + 1], a.gen_phi[k + 1]>>)
            ELSE matchedGenCoords)

\* the second loop (lines 152-165), from jet j (0-based) on
RECURSIVE MatchJetsFrom(_, _, _, _, _)
MatchJetsFrom(a, dR2, coords, j, matchedJetIndices) ==
    IF j >= Len(a.jet_eta) THEN matchedJetIndices
    ELSE MatchJetsFrom(a, dR2, coords, j + 1,
            IF \E c \in 1..Len(coords) :
                 Dist2(a.jet_eta[j + 1], a.jet_phi[j + 1], coords[c][1], coords[c][2]) < dR2
            THEN Append(matchedJetIndices, j) ELSE matchedJetIndices)

\* GenMatchSelectJets; matchedGenCoords is kept beside the returned indices
GenMatchSelectJets(a) ==
    LET dR2 == a.dR * a.dR
        coords == SelectIsolatedFrom(a, dR2, 0, <<>>)
    IN  [matchedGenCoords |-> coords,
         matchedJetIndices |-> MatchJetsFrom(a, dR2, coords, 0, <<>>)]

CallGenMatchSelectJets ==
    /\ pc = "call"
    /\ ret' = GenMatchSelectJets(args)
    /\ pc' = "done"
    /\ UNCHANGED <<args, flatVars>>

SpecGenMatch == InitFn(GenMatchArgs) /\ [][CallGenMatchSelectJets]_vars

\* the particles of 0..k-1 (0-based) that phase 1 retains, as C7 states it:
\* status bit 13, |pdgId| = matchID, no earlier retained particle closer
\* than dR
RECURSIVE Retained(_, _)
Retained(a, k) ==
    IF k = 0 THEN {}
    ELSE LET prev == Retained(a, k - 1)
             p == k - 1
         IN  IF /\ (a.gen_statusFlags[p + 1] \div 8192) % 2 = 1
                /\ (a.gen_pdgId[p + 1] = a.matchID \/ a.gen_pdgId[p + 1] = -a.matchID)
                /\ \A q \in prev :
                     Dist2(a.gen_eta[p + 1], a.gen_phi[p + 1],
                           a.gen_eta[q + 1], a.gen_phi[q + 1]) >= a.dR * a.dR
             THEN prev \cup {p} ELSE prev

\* C7: phase 1 retains, in index order, exactly the particles with status
\* bit 13, |pdgId| = matchID and no earlier retained particle at squared
\* distance < dR^2, so the retained ones are pairwise at distance >= dR;
\* phase 2 returns, ascending and without duplicates, exactly the jets at
\* distance < dR (dR >= 0) of at least one retained particle.
C7_GenMatchTwoPhases ==
    pc = "done" =>
        LET kept == Retained(args, Len(args.gen_pdgId))
            coords == ret.matchedGenCoords
        IN  /\ coords = SubSeqAt([k \in 1..Len(args.gen_pdgId) |->
                                     <<args.gen_eta[k], args.gen_phi[k]>>],
                                 {q + 1 : q \in kept}, 1)
            /\ \A c, d \in 1..Len(coords) :
                 c # d => Dist2(coords[c][1], coords[c][2],
                                coords[d][1], coords[d][2]) >= args.dR * args.dR
            /\ Ascending(ret.matchedJetIndices)
            /\ Range(ret.matchedJetIndices) =
                 {j \in 0..(Len(args.jet_eta) - 1) :
                    \E q \in kept :
                       Dist2(args.jet_eta[j + 1], args.jet_phi[j + 1],
                             args.gen_eta[q + 1], args.gen_phi[q + 1]) < args.dR * args.dR}

\* C7 witness: of three particles the second one qualifies and was discarded
\* because the first lies closer than dR, the third one was retained, and of
\* two jets only the second one is matched.
C7_Witness ==
    /\ pc = "done"
    /\ Len(args.gen_pdgId) = 3
    /\ Retained(args, 3) = {0, 2}
    /\ BitSet(args.gen_statusFlags[2], LastCopyBit)
    /\ Abs(args.gen_pdgId[2]) = args.matchID
    /\ Len(ret.matchedGenCoords) = 2
    /\ Len(args.jet_eta) = 2
    /\ ret.matchedJetIndices = <<1>>

----------------------------------------------------------------------------
(* JetMatching.cc: GetPFCandIndicesForJets, GetJetMatchIndexForPFCands *)

MaxPFCands == 3

\* association records (FatJetPFCands_jetIdx[i], FatJetPFCands_pFCandsIdx[i],
\* FatJetPFCands_pt[i]) offered, with PFCands_min_pt = 2
PFCandValues == {0, 1} \X {7, 8} \X {1, 5}
SelectedJetValues == {<<>>, <<0>>, <<1>>, <<0, 1>>, <<1, 0>>}

PFArgs ==
    { [FatJetPFCands_jetIdx |-> [k \in 1..Len(rs) |-> rs[k][1]],
       FatJetPFCands_pFCandsIdx |-> [k \in 1..Len(rs) |-> rs[k][2]],
       FatJetPFCands_pt |-> [k \in 1..Len(rs) |-> rs[k][3]],
       nFatJetPFCands |-> Len(rs),
       selected_jet_indices |-> sj,
       PFCands_min_pt |-> 2] :
        rs \in SeqsUpTo(PFCandValues, MaxPFCands), sj \in SelectedJetValues }

\* the loop of lines 42-46, from record k (0-based) on
RECURSIVE PFCandIndicesFrom(_, _, _)
PFCandIndicesFrom(a, k, result_indices) ==
    IF k >= a.nFatJetPFCands THEN result_indices
    ELSE PFCandIndicesFrom(a, k + 1,
            IF /\ a.FatJetPFCands_jetIdx[k + 1] \in Range(a.selected_jet_indices)
               /\ a.FatJetPFCands_pt[k + 1] > a.PFCands_min_pt
            THEN Append(result_indices, a.FatJetPFCands_pFCandsIdx[k + 1])
            ELSE result_indices)

GetPFCandIndicesForJets(a) == PFCandIndicesFrom(a, 0, <<>>)

\* lines 94-99: the first position k (0-based) of jetIdx in
\* selected_jet_indices, or -1 when the loop ends without a push
FirstPosition(selected_jet_indices, jetIdx) ==
    LET hits == {k \in 1..Len(selected_jet_indices) : selected_jet_indices[k] = jetIdx}
    IN  IF hits = {} THEN -1
        ELSE (CHOOSE k \in hits : \A m \in hits : k <= m) - 1

\* lines 90-102: the first record (1-based) whose pFCandsIdx is pfcand_idx,
\* or 0 when there is none
FirstRecord(a, pfcand_idx) ==
    LET hits == {j \in 1..Len(a.FatJetPFCands_jetIdx) :
                    a.FatJetPFCands_pFCandsIdx[j] = pfcand_idx}
    IN  IF hits = {} THEN 0
        ELSE CHOOSE j \in hits : \A m \in hits : j <= m

\* the outer loop of lines 86-103, from element k (0-based) of
\* selected_pfcand_indices on
RECURSIVE JetMatchIndexFrom(_, _, _, _)
JetMatchIndexFrom(a, selected_pfcand_indices, k, jet_match_indices) ==
    IF k >= Len(selected_pfcand_indices) THEN jet_match_indices
    ELSE LET j == FirstRecord(a, selected_pfcand_indices[k + 1])
             pos == IF j = 0 THEN -1
                    ELSE FirstPosition(a.selected_jet_indices, a.FatJetPFCands_jetIdx[j])
         IN  JetMatchIndexFrom(a, selected_pfcand_indices, k + 1,
                IF pos >= 0 THEN Append(jet_match_indices, pos) ELSE jet_match_indices)

GetJetMatchIndexForPFCands(a, selected_pfcand_indices) ==
    JetMatchIndexFrom(a, selected_pfcand_indices, 0, <<>>)

NoPFRet == [selected_pfcand_indices |-> <<>>, jet_match_indices |-> <<>>]

InitPF ==
    /\ NoFlat
    /\ pc = "call"
    /\ args \in PFArgs
    /\ ret = NoPFRet

\* the caller's first step: the candidates of the selected jets
CallGetPFCandIndicesForJets ==
    /\ pc = "call"
    /\ ret' = [ret EXCEPT !.selected_pfcand_indices = GetPFCandIndicesForJets(args)]
    /\ pc' = "cands"
    /\ UNCHANGED <<args, flatVars>>

\* the caller's second step: the jet position of each of these candidates
CallGetJetMatchIndexForPFCands ==
    /\ pc = "cands"
    /\ ret' = [ret EXCEPT !.jet_match_indices =
                 GetJetMatchIndexForPFCands(args, ret.selected_pfcand_indices)]
    /\ pc' = "done"
    /\ UNCHANGED <<args, flatVars>>

NextPF == CallGetPFCandIndicesForJets \/ CallGetJetMatchIndexForPFCands

SpecPF == InitPF /\ [][NextPF]_vars

\* C10: on the output of GetPFCandIndicesForJets, GetJetMatchIndexForPFCands
\* returns one entry per selected candidate, and entry k is the position in
\* selected_jet_indices of a jet that candidate k is associated with.
C10_MatchAlignedWithCandidates ==
    pc = "done" =>
        /\ Len(ret.jet_match_indices) = Len(ret.selected_pfcand_indices)
        /\ \A k \in 1..Len(ret.jet_match_indices) :
             /\ ret.jet_match_indices[k] \in 0..(Len(args.selected_jet_indices) - 1)
             /\ \E r \in 1..args.nFatJetPFCands :
                  /\ args.FatJetPFCands_pFCandsIdx[r] = ret.selected_pfcand_indices[k]
                  /\ args.FatJetPFCands_jetIdx[r] =
                       args.selected_jet_indices[ret.jet_match_indices[k] + 1]

----------------------------------------------------------------------------
(* top_gen_matching.cc.  rvec_f is a typedef of RVec<int> (line 9), so the   *)
(* phi and eta arrays hold integers; deltaR is computed in units of 1/1000. *)

MaxGenPart == 5
MaxTopJets == 2
MaxProbe == 2

\* TMath::Pi() and the cone radius 0.8, in units of 1/1000
Pi == 3142
ConeRadius == 800

\* the decay chain the events are drawn from: t -> b W, W -> q q'
\* (particle k has pdgId ChainPdgId[k], and its mother is either the
\* sentinel -1 or the chain's mother); longer events repeat the chain
ChainPdgId == <<6, -5, 24, 1, -2>>
ChainMother == <<-1, 0, 0, 2, 2>>
GenPositions == {<<0, 3>>, <<2, 0>>}       \* (eta, phi) of a particle
JetPositions == {<<0, -3>>, <<0, 3>>, <<2, 1>>}

ChainPdgIdAt(k) == ChainPdgId[(k % Len(ChainPdgId)) + 1]
ChainMotherAt(k) ==
    LET m == ChainMother[(k % Len(ChainMother)) + 1]
    IN  IF m < 0 THEN m ELSE m + Len(ChainMother) * (k \div Len(ChainMother))

GenEventsOfSize(n) ==
    { [nGenPart |-> n,
       GenPart_phi |-> [k \in 1..n |-> pos[k][2]],
       GenPart_eta |-> [k \in 1..n |-> pos[k][1]],
       GenPart_pdgId |-> [k \in 1..n |-> ChainPdgIdAt(k - 1)],
       GenPart_genPartIdxMother |->
           [k \in 1..n |-> IF k \in rootless THEN -1 ELSE ChainMotherAt(k - 1)]] :
        pos \in [1..n -> GenPositions],
        rootless \in SUBSET {k \in 1..n : ChainMotherAt(k - 1) >= 0} }

GenEvents == UNION {GenEventsOfSize(n) : n \in 0..MaxGenPart}

\* what a read of a generator array at an index outside 0..nGenPart-1 may
\* yield: the value is not defined by the language
GarbageValues ==
    { [pid |-> -1, eta |-> 0, phi |-> 3],
      [pid |-> 6,  eta |-> 0, phi |-> 3],
      [pid |-> 24, eta |-> 0, phi |-> 3],
      [pid |-> 24, eta |-> 9, phi |-> 0] }

\* deltaR(eta1, phi1, eta2, phi2) < 0.8, lines 20-28: the squared distance
\* against the squared radius
InCone(eta1, phi1, eta2, phi2) ==
    LET dEta == (eta1 - eta2) * 1000
        d == (phi1 - phi2) * 1000
        dPhi == IF d > Pi THEN d - 2 * Pi
                ELSE IF d <= -Pi THEN d + 2 * Pi
                ELSE d
    IN  dEta * dEta + dPhi * dPhi < ConeRadius * ConeRadius

ValidIdx(e, idx) == 0 <= idx /\ idx < e.nGenPart

\* GenPart_pdgId[motherIdx], GenPart_eta[motherIdx], GenPart_phi[motherIdx]
\* of particle k (0-based): the array element, or garbage g when motherIdx is
\* no index of the array
MotherIdx(e, k) == e.GenPart_genPartIdxMother[k + 1]
MotherPid(e, g, k) ==
    IF ValidIdx(e, MotherIdx(e, k)) THEN e.GenPart_pdgId[MotherIdx(e, k) + 1] ELSE g.pid
MotherEta(e, g, k) ==
    IF ValidIdx(e, MotherIdx(e, k)) THEN e.GenPart_eta[MotherIdx(e, k) + 1] ELSE g.eta
MotherPhi(e, g, k) ==
    IF ValidIdx(e, MotherIdx(e, k)) THEN e.GenPart_phi[MotherIdx(e, k) + 1] ELSE g.phi

\* the indices outside the array read so far, after particle k's mother is read
NoteRead(e, k, oob) ==
    IF ValidIdx(e, MotherIdx(e, k)) THEN oob ELSE oob \cup {MotherIdx(e, k)}

\* lines 37, 56, 76, 96: if (motherPid == -1) continue
SkipParticle(e, g, k) == MotherPid(e, g, k) = -1

\* dR < 0.8 of particle k, dRMother < 0.8 of its mother
PartInJet(e, k, FatJet_phi, FatJet_eta) ==
    InCone(e.GenPart_eta[k + 1], e.GenPart_phi[k + 1], FatJet_eta, FatJet_phi)
MotherInJet(e, g, k, FatJet_phi, FatJet_eta) ==
    InCone(MotherEta(e, g, k), MotherPhi(e, g, k), FatJet_eta, FatJet_phi)

\* bFromTopinJet, lines 31-48, from particle k (0-based) on
RECURSIVE bFromTopinJetFrom(_, _, _, _, _, _)
bFromTopinJetFrom(FatJet_phi, FatJet_eta, e, g, k, oob) ==
    IF k >= e.nGenPart THEN [value |-> 0, oob |-> oob]
    ELSE LET read == NoteRead(e, k, oob)
         IN  IF SkipParticle(e, g, k)
             THEN bFromTopinJetFrom(FatJet_phi, FatJet_eta, e, g, k + 1, read)
             ELSE IF /\ Abs(e.GenPart_pdgId[k + 1]) = 5
                     /\ Abs(MotherPid(e, g, k)) = 6
                     /\ PartInJet(e, k, FatJet_phi, FatJet_eta)
             THEN [value |-> 1, oob |-> read]
             ELSE bFromTopinJetFrom(FatJet_phi, FatJet_eta, e, g, k + 1, read)

bFromTopinJet(FatJet_phi, FatJet_eta, e, g) ==
    bFromTopinJetFrom(FatJet_phi, FatJet_eta, e, g, 0, {})

\* bFromTopBothinJet, lines 50-68
RECURSIVE bFromTopBothinJetFrom(_, _, _, _, _, _)
bFromTopBothinJetFrom(FatJet_phi, FatJet_eta, e, g, k, oob) ==
    IF k >= e.nGenPart THEN [value |-> 0, oob |-> oob]
    ELSE LET read == NoteRead(e, k, oob)
         IN  IF SkipParticle(e, g, k)
             THEN bFromTopBothinJetFrom(FatJet_phi, FatJet_eta, e, g, k + 1, read)
             ELSE IF /\ Abs(e.GenPart_pdgId[k + 1]) = 5
                     /\ Abs(MotherPid(e, g, k)) = 6
                     /\ PartInJet(e, k, FatJet_phi, FatJet_eta)
                     /\ MotherInJet(e, g, k, FatJet_phi, FatJet_eta)
             THEN [value |-> 1, oob |-> read]
             ELSE bFromTopBothinJetFrom(FatJet_phi, FatJet_eta, e, g, k + 1, read)

bFromTopBothinJet(FatJet_phi, FatJet_eta, e, g) ==
    bFromTopBothinJetFrom(FatJet_phi, FatJet_eta, e, g, 0, {})

\* qFromWInJet, lines 70-86
RECURSIVE qFromWInJetFrom(_, _, _, _, _, _)
qFromWInJetFrom(FatJet_phi, FatJet_eta, e, g, k, oob) ==
    IF k >= e.nGenPart THEN [value |-> 0, oob |-> oob]
    ELSE LET read == NoteRead(e, k, oob)
         IN  IF SkipParticle(e, g, k)
             THEN qFromWInJetFrom(FatJet_phi, FatJet_eta, e, g, k + 1, read)
             ELSE IF /\ PartInJet(e, k, FatJet_phi, FatJet_eta)
                     /\ Abs(e.GenPart_pdgId[k + 1]) < 6
                     /\ Abs(e.GenPart_pdgId[k + 1]) > 0
                     /\ Abs(MotherPid(e, g, k)) = 24
             THEN [value |-> 1, oob |-> read]
             ELSE qFromWInJetFrom(FatJet_phi, FatJet_eta, e, g, k + 1, read)

qFromWInJet(FatJet_phi, FatJet_eta, e, g) ==
    qFromWInJetFrom(FatJet_phi, FatJet_eta, e, g, 0, {})

\* qqFromWAllInJet, lines 88-113; nQ and isWInJet grow together
RECURSIVE qqFromWAllInJetFrom(_, _, _, _, _, _, _, _)
qqFromWAllInJetFrom(FatJet_phi, FatJet_eta, e, g, k, oob, nQ, isWInJet) ==
    IF k >= e.nGenPart
    THEN [value |-> IF nQ > 1 /\ isWInJet > 1 THEN 1 ELSE 0, oob |-> oob]
    ELSE LET read == NoteRead(e, k, oob)
         IN  IF SkipParticle(e, g, k)
             THEN qqFromWAllInJetFrom(FatJet_phi, FatJet_eta, e, g, k + 1, read, nQ, isWInJet)
             ELSE IF /\ PartInJet(e, k, FatJet_phi, FatJet_eta)
                     /\ Abs(e.GenPart_pdgId[k + 1]) < 6
                     /\ Abs(e.GenPart_pdgId[k + 1]) > 0
                     /\ Abs(MotherPid(e, g, k)) = 24
                     /\ MotherInJet(e, g, k, FatJet_phi, FatJet_eta)
             THEN qqFromWAllInJetFrom(FatJet_phi, FatJet_eta, e, g, k + 1, read,
                                      nQ + 1, isWInJet + 1)
             ELSE qqFromWAllInJetFrom(FatJet_phi, FatJet_eta, e, g, k + 1, read, nQ, isWInJet)

qqFromWAllInJet(FatJet_phi, FatJet_eta, e, g) ==
    qqFromWAllInJetFrom(FatJet_phi, FatJet_eta, e, g, 0, {}, 0, 0)

\* a mutant: the bq branch is tried before the bqq branch
ProbeLabelBqFirst(btInJet, bInJet, qInJet, qqWInJet) ==
    IF bInJet = 1 /\ qInJet = 1 THEN 2
    ELSE IF btInJet = 1 /\ qqWInJet = 1 THEN 3
    ELSE IF qqWInJet = 1 THEN 1
    ELSE 0

\* lines 122-133 of classifyProbeJet
ProbeLabel(btInJet, bInJet, qInJet, qqWInJet) ==
    IF btInJet = 1 /\ qqWInJet = 1 THEN 3
    ELSE IF bInJet = 1 /\ qInJet = 1 THEN 2
    ELSE IF qqWInJet = 1 THEN 1
    ELSE 0

\* classifyProbeJet, lines 115-134: every outcome the four calls can have.
\* Each call works on its own copies of the arrays, so each may read its own
\* garbage. An outcome keeps the four values, the label returned and the
\* indices outside the arrays that were read.
classifyProbeJet(fatJetIdx, FatJet_phi, FatJet_eta, e) ==
    LET jphi == FatJet_phi[fatJetIdx + 1]
        jeta == FatJet_eta[fatJetIdx + 1]
    IN  { [btInJet |-> bt.value, bInJet |-> b.value,
           qInJet |-> q.value, qqWInJet |-> qq.value,
           label |-> ProbeLabel(bt.value, b.value, q.value, qq.value),
           oob |-> bt.oob \cup b.oob \cup q.oob \cup qq.oob] :
            bt \in {bFromTopinJet(jphi, jeta, e, g) : g \in GarbageValues},
            b \in {bFromTopBothinJet(jphi, jeta, e, g) : g \in GarbageValues},
            q \in {qFromWInJet(jphi, jeta, e, g) : g \in GarbageValues},
            qq \in {qqFromWAllInJet(jphi, jeta, e, g) : g \in GarbageValues} }

ProbeArgs ==
    { [fatJetIdx |-> idx,
       FatJet_phi |-> <<j1[2], j2[2]>>, FatJet_eta |-> <<j1[1], j2[1]>>,
       nGenPart |-> e.nGenPart, GenPart_phi |-> e.GenPart_phi,
       GenPart_eta |-> e.GenPart_eta, GenPart_pdgId |-> e.GenPart_pdgId,
       GenPart_genPartIdxMother |-> e.GenPart_genPartIdxMother] :
        idx \in {0, 1}, j1 \in JetPositions, j2 \in JetPositions, e \in GenEvents }

CallClassifyProbeJet ==
    /\ pc = "call"
    /\ ret' \in classifyProbeJet(args.fatJetIdx, args.FatJet_phi, args.FatJet_eta, args)
    /\ pc' = "done"
    /\ UNCHANGED <<args, flatVars>>

SpecProbe == InitFn(ProbeArgs) /\ [][CallClassifyProbeJet]_vars

\* the particles (0-based) with a mother in the array
Rooted(e) == {k \in 0..(e.nGenPart - 1) : ValidIdx(e, MotherIdx(e, k))}

\* the light quarks from a W inside the jet, among the rooted particles
RootedQFromW(e, jphi, jeta) ==
    {k \in Rooted(e) :
        /\ PartInJet(e, k, jphi, jeta)
        /\ Abs(e.GenPart_pdgId[k + 1]) \in 1..5
        /\ Abs(e.GenPart_pdgId[MotherIdx(e, k) + 1]) = 24}

\* the b quarks from a top inside the jet, among the rooted particles
RootedBFromTop(e, jphi, jeta) ==
    {k \in Rooted(e) :
        /\ PartInJet(e, k, jphi, jeta)
        /\ Abs(e.GenPart_pdgId[k + 1]) = 5
        /\ Abs(e.GenPart_pdgId[MotherIdx(e, k) + 1]) = 6}

RootedMotherInJet(e, k, jphi, jeta) ==
    InCone(e.GenPart_eta[MotherIdx(e, k) + 1], e.GenPart_phi[MotherIdx(e, k) + 1],
           jeta, jphi)

Bit(b) == IF b THEN 1 ELSE 0

\* C3: in the four ancestry predicates a particle whose mother index is the
\* sentinel -1 is skipped before any array is indexed with it: no array is
\* read outside 0..nGenPart-1, and each predicate's result is the one the
\* particles with a mother alone give.
C3_SentinelSkippedBeforeIndexing ==
    pc = "done" =>
        LET jphi == args.FatJet_phi[args.fatJetIdx + 1]
            jeta == args.FatJet_eta[args.fatJetIdx + 1]
        IN  /\ ret.oob = {}
            /\ ret.btInJet = Bit(RootedBFromTop(args, jphi, jeta) # {})
            /\ ret.bInJet =
                 Bit(\E k \in RootedBFromTop(args, jphi, jeta) :
                        RootedMotherInJet(args, k, jphi, jeta))
            /\ ret.qInJet = Bit(RootedQFromW(args, jphi, jeta) # {})
            /\ ret.qqWInJet =
                 Bit(Cardinality({k \in RootedQFromW(args, jphi, jeta) :
                                     RootedMotherInJet(args, k, jphi, jeta)}) > 1)

\* C5: classifyProbeJet returns 3 if bFromTopinJet and qqFromWAllInJet both
\* hold; otherwise 2 if bFromTopBothinJet and qFromWInJet both hold;
\* otherwise 1 if qqFromWAllInJet holds; otherwise 0.
C5_LabelPriority ==
    pc = "done" =>
        /\ ret.label \in 0..3
        /\ (ret.label = 3 <=> (ret.btInJet = 1 /\ ret.qqWInJet = 1))
        /\ (ret.label = 2 <=>
              (~(ret.btInJet = 1 /\ ret.qqWInJet = 1) /\ ret.bInJet = 1 /\ ret.qInJet = 1))
        /\ (ret.label = 1 <=>
              (~(ret.btInJet = 1 /\ ret.qqWInJet = 1)
                 /\ ~(ret.bInJet = 1 /\ ret.qInJet = 1) /\ ret.qqWInJet = 1))

\* C5 witness: every particle but the top has its mother in the array, the
\* conditions of label 3 and of label 2 both hold, and 3 was returned.
C5_Witness ==
    /\ pc = "done"
    /\ args.nGenPart = 5
    /\ Rooted(args) = {1, 2, 3, 4}
    /\ ret.btInJet = 1 /\ ret.qqWInJet = 1 /\ ret.bInJet = 1 /\ ret.qInJet = 1
    /\ ret.label = 3

----------------------------------------------------------------------------
(* top_gen_matching.cc: classifyTopJets *)

\* the events classifyTopJets is tried on: no particle, or one decay chain
\* with the particles all at one position, and all with their chain mother
\* or all without
TopEvents ==
    {e \in GenEvents :
        /\ e.nGenPart \in {0, Len(ChainPdgId)}
        /\ \A k, m \in 1..e.nGenPart :
             e.GenPart_phi[k] = e.GenPart_phi[m] /\ e.GenPart_eta[k] = e.GenPart_eta[m]
        /\ \/ \A k \in 1..e.nGenPart : e.GenPart_genPartIdxMother[k] = -1
           \/ \A k \in 1..e.nGenPart : e.GenPart_genPartIdxMother[k] = ChainMotherAt(k - 1)}

TopJetPositions == {<<0, 3>>, <<2, 1>>}

TopArgs ==
    { [FatJet_phi |-> [k \in 1..Len(js) |-> js[k][2]],
       FatJet_eta |-> [k \in 1..Len(js) |-> js[k][1]],
       pfindices_selected_jet |-> pf,
       nGenPart |-> e.nGenPart, GenPart_phi |-> e.GenPart_phi,
       GenPart_eta |-> e.GenPart_eta, GenPart_pdgId |-> e.GenPart_pdgId,
       GenPart_genPartIdxMother |-> e.GenPart_genPartIdxMother] :
        js \in SeqsUpTo(TopJetPositions, MaxTopJets),
        pf \in SeqsUpTo(-1..MaxTopJets, MaxProbe),
        e \in TopEvents }

\* a mutant: the labels start at 0, the "unmatched" label
InitialLabelsZero(size) == [k \in 1..size |-> 0]

\* line 142: rvec_i result(FatJet_phi.size(), -1)
InitialLabels(size) == [k \in 1..size |-> -1]

\* the values classifyProbeJet can return at line 147
ProbeLabels(fatJetIdx, FatJet_phi, FatJet_eta, e) ==
    {o.label : o \in classifyProbeJet(fatJetIdx, FatJet_phi, FatJet_eta, e)}

\* the loop of lines 144-149, from entry k (0-based) of
\* pfindices_selected_jet on: every result it can end with
RECURSIVE classifyTopJetsFrom(_, _, _)
classifyTopJetsFrom(a, k, result) ==
    IF k >= Len(a.pfindices_selected_jet) THEN {result}
    ELSE LET fatJetIdx == a.pfindices_selected_jet[k + 1]
         IN  IF fatJetIdx >= 0 /\ fatJetIdx < Len(a.FatJet_phi)
             THEN UNION { classifyTopJetsFrom(a, k + 1,
                              [result EXCEPT ![fatJetIdx + 1] = label]) :
                          label \in ProbeLabels(fatJetIdx, a.FatJet_phi, a.FatJet_eta, a) }
             ELSE classifyTopJetsFrom(a, k + 1, result)

classifyTopJets(a) == classifyTopJetsFrom(a, 0, InitialLabels(Len(a.FatJet_phi)))

CallClassifyTopJets ==
    /\ pc = "call"
    /\ ret' \in classifyTopJets(args)
    /\ pc' = "done"
    /\ UNCHANGED <<args, flatVars>>

SpecTop == InitFn(TopArgs) /\ [][CallClassifyTopJets]_vars

\* C4: classifyTopJets returns one entry per jet; a position that does not
\* occur in pfindices_selected_jet holds -1; a position j that occurs there
\* holds a value classifyProbeJet(j, ...) returns, one of 0, 1, 2, 3;
\* entries of pfindices_selected_jet that are negative or >= the number of
\* jets write nothing. An empty pfindices_selected_jet yields all -1.
C4_ClassifyTopJetsShape ==
    pc = "done" =>
        LET njets == Len(args.FatJet_phi)
            probed == Range(args.pfindices_selected_jet)
        IN  /\ DOMAIN ret = 1..njets
            /\ \A j \in 0..(njets - 1) :
                 IF j \in probed
                 THEN /\ ret[j + 1] \in 0..3
                      /\ ret[j + 1] \in
                           {o.label : o \in classifyProbeJet(j, args.FatJet_phi,
                                                             args.FatJet_eta, args)}
                 ELSE ret[j + 1] = -1
            /\ (args.pfindices_selected_jet = <<>> => \A j \in 1..njets : ret[j] = -1)

\* C4 witness: on a full decay chain with every mother in the array (but
\* the top's), of two jets the second is probed and labelled 3, the first is
\* not probed and holds -1, and the probe list also names index -1.
C4_Witness ==
    /\ pc = "done"
    /\ args.GenPart_genPartIdxMother = <<-1, 0, 0, 2, 2>>
    /\ Len(args.FatJet_phi) = 2
    /\ args.pfindices_selected_jet = <<-1, 1>>
    /\ ret = <<-1, 3>>

=============================================================================
